---- MODULE Spec2Model ----
(***************************************************************************)
(* KAIKU: the client-side message engine of src/App.tsx and                *)
(* src/services/storageService.ts as a state machine.                      *)
(*                                                                         *)
(* Times are milliseconds (Date.now()).  Coordinates are integers in units *)
(* of 1e-5 degree.  Message ids are naturals: generateUUID() is a fresh    *)
(* id.  A missing value (null / undefined / absent localStorage item) is   *)
(* the empty tuple or the id 0, as noted at each definition.               *)
(***************************************************************************)
EXTENDS Integers, Sequences, FiniteSets, TLC

\* ------------------------------------------------------------ constants.ts
MAX_POSTS_PER_WINDOW == 10
RATE_LIMIT_WINDOW_MS == 60 * 60 * 1000
SPAM_RATE_LIMIT_MS == 4000
MESSAGE_LIFESPAN_MS == 48 * 60 * 60 * 1000
SCORE_THRESHOLD_HIDE == -5

\* applyFuzzyLogic's JITTER = 0.025 degree, in units of 1e-5 degree
JITTER == 2500

\* ChatMap: useState(5), in tenths of a zoom level
INITIAL_ZOOM == 50

\* ------------------------------------------------------------ model bounds
MaxTicks == 2          \* clock advances per behaviour
MaxSubmissions == 2    \* saveMessage calls accepted per behaviour
MaxInFlight == 1       \* asynchronous calls of one kind pending at once
MaxVotes == 2          \* handleVote calls per behaviour
MaxChannel == 2        \* push events waiting for delivery
MaxOtherWrites == 1    \* writes to the table by other sessions
MaxVoteCalls == 2      \* castVote calls pending at once when votes overlap

\* ------------------------------------------------------------ values
Me == "me"                 \* getAnonymousID() of this session
Other == "other"           \* any other session's id
NoParent == 0              \* parentId / parent_post_id null
Directions == {"up", "down"}
Texts == {"hello", "buy crypto"}   \* one clean text, one with BANNED_WORDS

\* moderationService.moderateContent: false when a banned word occurs
moderateContent(text) == text # "buy crypto"

VARIABLES
    now,             \* Date.now()
    ticks,           \* number of clock advances so far (bounds the clock)
    variant,         \* which castVote of storageService.ts is linked
    messages,        \* App state `messages`: the canonical collection
    visibleMessages, \* App state `visibleMessages`: the feed list
    filteredClusterMessages, \* App state; <<>> wrapped: <<>> = null, <<list>>
    currentBounds,   \* App state; <<>> = null, <<bounds>>
    rateLimit,       \* App state `rateLimit`
    posts,           \* the backing table kaiku_posts (set of rows)
    channel,         \* postgres_changes events not yet delivered
    lastPostTs,      \* localStorage kaiku_last_post_ts; <<>> = absent, <<t>>
    userVotes,       \* localStorage votes: id -> "none" | "up" | "down"
    stored,          \* localStorage global_local_talk_data; <<>> absent, <<list>>
    saveCalls,       \* saveMessage invocations in flight
    voteCalls,       \* castVote invocations in flight
    loadCalls,       \* loadData invocations in flight
    deleteCalls,     \* handleDelete invocations in flight
    nextId,          \* next id generateUUID() returns
    zoom,            \* ChatMap state `zoom`, in tenths of a zoom level
    hubs,            \* ChatMap's aggregation of `messages`, as last rendered
    gps,             \* the device's true coordinate
    origin,          \* history: id -> the raw coordinate its submission read
    accepted,        \* history: start times of the accepted saveMessage calls
    votesCast,       \* history: number of handleVote calls
    otherWrites,     \* history: number of writes by other sessions
    score0,          \* history: id -> the score the message was loaded with
    lastOp           \* history: the operation the last step performed

vars == << now, ticks, variant, messages, visibleMessages,
           filteredClusterMessages, currentBounds, rateLimit, posts, channel,
           lastPostTs, userVotes, stored, saveCalls, voteCalls, loadCalls,
           deleteCalls, nextId, zoom, hubs, gps, origin, accepted, votesCast,
           otherWrites, score0, lastOp >>

\* ------------------------------------------------------------ sequences
SeqIds(s) == { s[i].id : i \in DOMAIN s }
CountId(s, id) == Cardinality({ i \in DOMAIN s : s[i].id = id })

\* Array.prototype.findIndex, 1-based; 0 stands for -1
findIndex(s, id) ==
    IF \E i \in DOMAIN s : s[i].id = id
    THEN CHOOSE i \in DOMAIN s :
            /\ s[i].id = id
            /\ \A j \in DOMAIN s : s[j].id = id => i <= j
    ELSE 0

\* ------------------------------------------------------------ types.ts
ChatMessage(id, timestamp, lat, lng, sessionId, score, parentId, replyCount) ==
    [ id |-> id, timestamp |-> timestamp, lat |-> lat, lng |-> lng,
      sessionId |-> sessionId, score |-> score, parentId |-> parentId,
      replyCount |-> replyCount ]

\* a row of kaiku_posts
Row(id, created_at, lat, lng, session_id, score, parent_post_id) ==
    [ id |-> id, created_at |-> created_at, latitude |-> lat,
      longitude |-> lng, session_id |-> session_id, score |-> score,
      parent_post_id |-> parent_post_id ]

\* subscribeToMessages.mapPayload: the row as a ChatMessage, replyCount 0
mapPayload(payload) ==
    ChatMessage(payload.id, payload.created_at, payload.latitude,
                payload.longitude, payload.session_id, payload.score,
                payload.parent_post_id, 0)

\* ------------------------------------------------------------ lifecycle
\* the prune interval's filter (App.tsx)
pruneKeeps(m, t) ==
    LET cutoff == t - MESSAGE_LIFESPAN_MS
    IN  m.timestamp > cutoff /\ m.score > SCORE_THRESHOLD_HIDE

\* the viewport effect's filter (App.tsx)
viewportKeeps(m, b, t) ==
    LET cutoff == t - MESSAGE_LIFESPAN_MS
    IN  /\ m.lat <= b.north
        /\ m.lat >= b.south
        /\ m.lng <= b.east
        /\ m.lng >= b.west
        /\ m.score > SCORE_THRESHOLD_HIDE
        /\ m.timestamp > cutoff

\* getLocalMessages' filter over the stored list (storageService.ts)
localKeeps(m, t) ==
    LET cutoff == t - MESSAGE_LIFESPAN_MS
    IN  m.timestamp > cutoff /\ m.score > SCORE_THRESHOLD_HIDE

\* the visibleMessages effect: runs after every change of its dependencies
visibleEffect(msgs, bounds, cluster, t, prev) ==
    IF cluster # << >> THEN cluster[1]
    ELSE IF bounds = << >> THEN prev
    ELSE SelectSeq(msgs, LAMBDA m : viewportKeeps(m, bounds[1], t))

\* ------------------------------------------------------------ votes
\* castVote, lines 324-351: the vote record after the call
castVoteRecord(previousVote, direction) ==
    IF previousVote = direction THEN "none" ELSE direction

\* castVote, lines 324-351: scoreDelta
castVoteDelta(previousVote, direction) ==
    IF previousVote = direction
    THEN (IF direction = "up" THEN -1 ELSE 1)
    ELSE IF previousVote # "none"
         THEN (IF direction = "up" THEN 2 ELSE -2)
         ELSE (IF direction = "up" THEN 1 ELSE -1)

\* castVote, lines 784-788: votes[msgId] = direction, no score written
castVoteOverwrite(previousVote, direction) == direction

\* handleVote's optimistic update of the local score
handleVoteLocal(msgs, msgId, direction) ==
    LET delta == IF direction = "up" THEN 1 ELSE -1
    IN  [ i \in DOMAIN msgs |->
            IF msgs[i].id = msgId
            THEN [ msgs[i] EXCEPT !.score = @ + delta ]
            ELSE msgs[i] ]

\* ------------------------------------------------------------ realtime merge
\* a reducer that counts every reply event, the session's own included
mergeEventCountsOwn(prev, ev) ==
    IF ev.type = "DELETE"
    THEN SelectSeq(prev, LAMBDA m : m.id # ev.id)
    ELSE IF ev.message.parentId # NoParent
    THEN [ i \in DOMAIN prev |->
             IF prev[i].id = ev.message.parentId
             THEN [ prev[i] EXCEPT !.replyCount = @ + 1 ]
             ELSE prev[i] ]
    ELSE LET exists == findIndex(prev, ev.message.id)
         IN  IF exists # 0
             THEN [ prev EXCEPT ![exists] = ev.message ]
             ELSE << ev.message >> \o prev

\* a reducer whose DELETE branch also drops the entries voted below zero
mergeEventDeletePrunes(prev, ev) ==
    IF ev.type = "DELETE"
    THEN SelectSeq(prev, LAMBDA m : m.id # ev.id /\ m.score >= 0)
    ELSE IF ev.message.parentId # NoParent
    THEN IF ev.message.sessionId = Me THEN prev
         ELSE [ i \in DOMAIN prev |->
                  IF prev[i].id = ev.message.parentId
                  THEN [ prev[i] EXCEPT !.replyCount = @ + 1 ]
                  ELSE prev[i] ]
    ELSE LET exists == findIndex(prev, ev.message.id)
         IN  IF exists # 0
             THEN [ prev EXCEPT ![exists] = ev.message ]
             ELSE << ev.message >> \o prev

\* a reducer without the findIndex test: every top-level event is prepended
mergeEventPrepends(prev, ev) ==
    IF ev.type = "DELETE"
    THEN SelectSeq(prev, LAMBDA m : m.id # ev.id)
    ELSE IF ev.message.parentId # NoParent
    THEN prev
    ELSE << ev.message >> \o prev

\* the subscribeToMessages callback's reducer (App.tsx 54-78).  An event is
\* [type, id] for DELETE and [type, id, message] for INSERT and UPDATE.
mergeEvent(prev, ev) ==
    IF ev.type = "DELETE"
    THEN SelectSeq(prev, LAMBDA m : m.id # ev.id)
    ELSE IF ev.message.parentId # NoParent
    THEN IF ev.message.sessionId = Me
         THEN prev
         ELSE [ i \in DOMAIN prev |->
                  IF prev[i].id = ev.message.parentId
                  THEN [ prev[i] EXCEPT !.replyCount = @ + 1 ]
                  ELSE prev[i] ]
    ELSE LET exists == findIndex(prev, ev.message.id)
         IN  IF exists # 0
             THEN [ prev EXCEPT ![exists] = ev.message ]
             ELSE << ev.message >> \o prev

\* the callback's reducer in the App of part_000 (44-55): no parentId branch;
\* the message its subscribeToMessages builds (storageService.ts 808-824)
\* has no replyCount, so the spread keeps the entry's own
mergeEventPlain(prev, ev) ==
    IF ev.type = "DELETE"
    THEN SelectSeq(prev, LAMBDA m : m.id # ev.id)
    ELSE LET exists == findIndex(prev, ev.message.id)
         IN  IF exists # 0
             THEN [ prev EXCEPT ![exists] =
                      [ ev.message EXCEPT !.replyCount = prev[exists].replyCount ] ]
             ELSE << ev.message >> \o prev

\* whether the reducer returned a new array (a state change for React)
mergeChanges(prev, ev) ==
    ~ (ev.type # "DELETE" /\ ev.message.parentId # NoParent
       /\ ev.message.sessionId = Me)

\* ------------------------------------------------------------ fetchMessages
\* the count of children the select joins in (replies:...(count))
ReplyCountOf(rows, id) ==
    Cardinality({ r \in rows : r.parent_post_id = id })

\* fetchMessages' map of one row
fetchRow(rows, d) ==
    ChatMessage(d.id, d.created_at, d.latitude, d.longitude, d.session_id,
                d.score, d.parent_post_id, ReplyCountOf(rows, d.id))

\* all orders of a set of rows by created_at descending (ties in any order)
RECURSIVE Descending(_)
Descending(rows) ==
    IF rows = {} THEN { << >> }
    ELSE UNION { { << r >> \o s : s \in Descending(rows \ {r}) } :
                 r \in { x \in rows :
                           \A y \in rows : x.created_at >= y.created_at } }

\* the answers fetchMessages(true) can get from the table
fetchMessages(rows) ==
    { [ i \in DOMAIN s |-> fetchRow(rows, s[i]) ] :
        s \in Descending({ r \in rows : r.parent_post_id = NoParent }) }

\* ------------------------------------------------------------ rate limit
\* saveMessage's checks before its first await (storageService.ts 216-232)
saveMessageCheck(last, t, text) ==
    IF last # << >> /\ t - last[1] < SPAM_RATE_LIMIT_MS THEN "cooldown"
    ELSE IF ~ moderateContent(text) THEN "moderation"
    ELSE "accepted"

\* the Error a rejected saveMessage throws (223, 231): a message and nothing
\* else
thrownError(outcome) ==
    IF outcome = "cooldown"
    THEN [ message |-> "You are sending messages too fast. Please wait a moment." ]
    ELSE [ message |-> "Message blocked by automated moderation." ]

\* the retry time a caller can read off a thrown error; <<>> = none
retryAfterOf(err) ==
    IF "retryAfter" \in DOMAIN err THEN << err.retryAfter >> ELSE << >>

\* getRateLimitStatus (storageService.ts 353-380): the rows come back in no
\* stated order, so `data[data.length-1]` is any of them
getRateLimitStatus(rows, t) ==
    LET data == { r \in rows : r.session_id = Me
                               /\ r.created_at > t - RATE_LIMIT_WINDOW_MS }
    IN  IF Cardinality(data) >= MAX_POSTS_PER_WINDOW
        THEN { [ isLimited |-> TRUE,
                 cooldownUntil |-> << r.created_at + RATE_LIMIT_WINDOW_MS >> ] :
               r \in data }
        ELSE { [ isLimited |-> FALSE, cooldownUntil |-> << >> ] }

\* ChatInputModal: isLocked = !!cooldownUntil && timeLeft !== ''
isLocked(rl, t) ==
    rl.cooldownUntil # << >> /\ rl.cooldownUntil[1] - t > 0

\* ------------------------------------------------------------ obfuscation
\* applyFuzzyLogic with Math.random() = r / 4, r in 0..3
applyFuzzyLogic(lat, lng, r1, r2) ==
    [ lat |-> lat + ((2 * r1 - 4) * JITTER) \div 8,
      lng |-> lng + ((2 * r2 - 4) * JITTER) \div 8 ]

\* ------------------------------------------------------------ state groups
clockVars == << now, ticks >>
appVars == << messages, visibleMessages, filteredClusterMessages,
              currentBounds, rateLimit >>
storeVars == << lastPostTs, userVotes, stored >>
serverVars == << posts, channel >>
callVars == << saveCalls, voteCalls, loadCalls, deleteCalls >>
histVars == << origin, accepted, votesCast, otherWrites, score0 >>
envVars == << variant, gps, nextId >>
mapVars == << zoom, hubs >>

\* lastOp after a step that sets no App state
Idle == [ op |-> "idle" ]

RemoveAt(s, i) == [ j \in 1..(Len(s) - 1) |-> IF j < i THEN s[j] ELSE s[j + 1] ]

getVote(votes, id) == IF id \in DOMAIN votes THEN votes[id] ELSE "none"

setVote(votes, id, v) ==
    IF v = "none"
    THEN [ x \in DOMAIN votes \ {id} |-> votes[x] ]
    ELSE [ x \in DOMAIN votes \cup {id} |-> IF x = id THEN v ELSE votes[x] ]

\* setMessages(next) followed by the visibleMessages effect; `changed` is
\* whether React sees a new array
Commit(next, changed) ==
    /\ messages' = next
    /\ visibleMessages' =
         IF changed
         THEN visibleEffect(next, currentBounds, filteredClusterMessages,
                            now, visibleMessages)
         ELSE visibleMessages
    /\ UNCHANGED << filteredClusterMessages, currentBounds >>

\* the whole world, as the viewport of a zoomed-out map
World == [ north |-> 9000000, south |-> -9000000,
           east |-> 18000000, west |-> -18000000 ]
\* a viewport around Porvoo
Porvoo == [ north |-> 6100000, south |-> 6000000,
            east |-> 2600000, west |-> 2500000 ]
Viewports == { World, Porvoo }
\* the device's position, in Porvoo
Home == [ lat |-> 6039000, lng |-> 2566000 ]

\* ------------------------------------------------------------ clock
Tick(d) ==
    /\ ticks < MaxTicks
    /\ now' = now + d
    /\ ticks' = ticks + 1
    /\ lastOp' = Idle
    /\ UNCHANGED << mapVars, appVars, storeVars, serverVars, callVars,
                    histVars, envVars >>

\* a rejection path that records the attempt before throwing
rejectedLeavesRecords(last, t) == << t >>

\* ------------------------------------------------------------ saveMessage
\* what a rejected call leaves in kaiku_last_post_ts: it throws before
\* the setItem of line 277
rejectedLeaves(last, t) == last

\* submissions this session has had accepted so far
Submitted ==
    Cardinality(origin)
    + Cardinality({ i \in DOMAIN saveCalls : saveCalls[i].stage = "insert" })

\* saveMessage(text, lat, lng, parentId) up to its first await
saveMessageCall(kind, stage, text, parentId, lat, lng) ==
    LET outcome == saveMessageCheck(lastPostTs, now, text)
        call == [ kind |-> kind, stage |-> stage, text |-> text,
                  lat |-> lat, lng |-> lng, parentId |-> parentId,
                  startedAt |-> now, error |-> FALSE,
                  msg |-> ChatMessage(0, 0, 0, 0, Me, 0, NoParent, 0) ]
    IN  /\ lastOp' = [ op |-> "saveMessage", at |-> now, text |-> text,
                       kind |-> kind, outcome |-> outcome,
                       before |-> lastPostTs, prior |-> accepted ]
        /\ IF outcome = "accepted"
           THEN /\ Submitted < MaxSubmissions
                /\ saveCalls' = Append(saveCalls, call)
                /\ accepted' = Append(accepted, now)
                /\ UNCHANGED lastPostTs
           ELSE /\ lastPostTs' = rejectedLeaves(lastPostTs, now)
                /\ UNCHANGED << saveCalls, accepted >>
        /\ UNCHANGED << mapVars, clockVars, appVars, userVotes, stored, serverVars,
                        voteCalls, loadCalls, origin, votesCast, otherWrites,
                        score0, envVars, deleteCalls >>

\* saveMessage as handleSave / handleReply of App.tsx call it: with the
\* position the device reported (147-158, 181-190)
saveMessageStart(kind, text, parentId) ==
    saveMessageCall(kind, "insert", text, parentId, gps.lat, gps.lng)

InFlight(kind) == \E i \in DOMAIN saveCalls : saveCalls[i].kind = kind

\* App.handleSave up to saveMessage's first await; the modal offers the
\* button while it is not locked and no submission is pending
HandleSave(text) ==
    /\ ~ isLocked(rateLimit, now)
    /\ ~ InFlight("save")
    /\ saveMessageStart("save", text, NoParent)

\* App.handleReply up to saveMessage's first await, from an open thread
HandleReply(text) ==
    \E parentId \in SeqIds(messages) :
        /\ ~ InFlight("reply")
        /\ saveMessageStart("reply", text, parentId)

\* newMessage as saveMessage builds it once getCityName has answered
\* (238-249): the location is the pair of arguments it was called with
newMessage(c, id, t) == ChatMessage(id, t, c.lat, c.lng, Me, 0, c.parentId, 0)

\* what saveMessage leaves in local storage (252-254)
storeLocally(m) ==
    << << m >> \o (IF stored = << >> THEN << >> ELSE stored[1]) >>

\* saveMessage from `await getCityName` to the insert (234-270): the lookup
\* answers, newMessage is built and stored locally, and the table executes
\* the insert (created_at is the server's now()) and publishes it
SaveInsert ==
    \E i \in DOMAIN saveCalls :
        LET c == saveCalls[i]
            m == newMessage(c, nextId, now)
            row == Row(m.id, now, m.lat, m.lng, Me, 0, m.parentId)
        IN  /\ c.stage = "insert"
            /\ Len(channel) < MaxChannel
            /\ saveCalls' = [ saveCalls EXCEPT ![i].stage = "return",
                                               ![i].msg = m ]
            /\ stored' = storeLocally(m)
            /\ nextId' = nextId + 1
            /\ origin' = origin \cup
                 { [ id |-> nextId, lat |-> gps.lat, lng |-> gps.lng ] }
            /\ posts' = posts \cup { row }
            /\ channel' = Append(channel,
                 [ type |-> "INSERT", id |-> row.id,
                   message |-> mapPayload(row) ])
            /\ lastOp' = Idle
            /\ UNCHANGED << mapVars, clockVars, appVars, lastPostTs, userVotes,
                            voteCalls, loadCalls, accepted, votesCast,
                            otherWrites, score0, variant, gps, deleteCalls >>

\* the same with the insert request failing: `error` is logged and
\* saveMessage goes on (272-274)
SaveInsertFails ==
    \E i \in DOMAIN saveCalls :
        LET c == saveCalls[i]
            m == newMessage(c, nextId, now)
        IN  /\ c.stage = "insert"
            /\ saveCalls' = [ saveCalls EXCEPT ![i].stage = "return",
                                               ![i].msg = m,
                                               ![i].error = TRUE ]
            /\ stored' = storeLocally(m)
            /\ nextId' = nextId + 1
            /\ origin' = origin \cup
                 { [ id |-> nextId, lat |-> gps.lat, lng |-> gps.lng ] }
            /\ lastOp' = Idle
            /\ UNCHANGED << mapVars, clockVars, appVars, lastPostTs, userVotes,
                            serverVars, voteCalls, loadCalls, accepted,
                            votesCast, otherWrites, score0, variant, gps,
                            deleteCalls >>

\* saveMessage records Date.now() and returns newMessage (276-279); the
\* caller continues: handleSave prepends it and refreshes the rate-limit
\* status (172-174), handleReply increments the parent's replyCount (199-204)
SaveReturn ==
    \E i \in DOMAIN saveCalls :
        LET c == saveCalls[i]
        IN  /\ c.stage = "return"
            /\ lastPostTs' = << now >>
            /\ saveCalls' = RemoveAt(saveCalls, i)
            /\ IF c.kind = "save"
               THEN /\ Commit(<< c.msg >> \o messages, TRUE)
                    /\ rateLimit' \in getRateLimitStatus(posts, now)
               ELSE /\ Commit([ j \in DOMAIN messages |->
                                  IF messages[j].id = c.parentId
                                  THEN [ messages[j] EXCEPT
                                           !.replyCount = @ + 1 ]
                                  ELSE messages[j] ], TRUE)
                    /\ UNCHANGED rateLimit
            /\ lastOp' = [ op |-> "saveReturn", kind |-> c.kind,
                           id |-> c.msg.id ]
            /\ UNCHANGED << mapVars, clockVars, userVotes, stored, serverVars,
                            voteCalls, loadCalls, histVars, envVars,
                            deleteCalls >>

\* ------------------------------------------------------------ location
\* getCurrentPosition calls its error callback: no position is available
NoFix == [ lat |-> 0, lng |-> 0, denied |-> TRUE ]

\* two of the values getRandomLocation can return: lat in -60..70,
\* lng in -180..180
RandomLocations == { [ lat |-> -6000000, lng |-> -18000000 ],
                     [ lat |-> 4071280, lng |-> -7400600 ] }

\* getLocation of part_000 (94-107): the position, or a random one when the
\* device reports none
getLocation(g) == IF g = NoFix THEN RandomLocations ELSE { g }

\* App.handleSave of App.tsx without a position (144-162): the catch block
\* throws before saveMessage is called
HandleSaveThrows ==
    /\ variant = "toggle"
    /\ gps = NoFix
    /\ ~ isLocked(rateLimit, now)
    /\ ~ InFlight("save")
    /\ lastOp' = [ op |-> "saveThrows", at |-> now ]
    /\ UNCHANGED << mapVars, clockVars, appVars, storeVars, serverVars,
                    callVars, histVars, envVars >>

\* handleSaveMessage of part_000 up to saveMessage's first await (109-124):
\* the target is the centre of the viewport when the map has reported one
HandleSaveMessage(text) ==
    /\ variant = "overwrite"
    /\ ~ InFlight("post")
    /\ \E userLoc \in getLocation(gps) :
         LET target ==
               IF currentBounds # << >>
               THEN [ lat |-> (currentBounds[1].north
                                 + currentBounds[1].south) \div 2,
                      lng |-> (currentBounds[1].east
                                 + currentBounds[1].west) \div 2 ]
               ELSE userLoc
         IN  saveMessageCall("post", "post-insert", text, NoParent,
                             target.lat, target.lng)

\* saveMessage of storageService.ts 679-764 from the lookup to the insert:
\* the row carries the target coordinate
SavePostInsert ==
    \E i \in DOMAIN saveCalls :
        LET c == saveCalls[i]
            m == newMessage(c, nextId, now)
            row == Row(m.id, now, m.lat, m.lng, Me, 0, m.parentId)
        IN  /\ c.stage = "post-insert"
            /\ Len(channel) < MaxChannel
            /\ saveCalls' = [ saveCalls EXCEPT ![i].stage = "post-return",
                                               ![i].msg = m ]
            /\ nextId' = nextId + 1
            /\ origin' = origin \cup
                 { [ id |-> nextId, lat |-> gps.lat, lng |-> gps.lng ] }
            /\ posts' = posts \cup { row }
            /\ channel' = Append(channel,
                 [ type |-> "INSERT", id |-> row.id,
                   message |-> mapPayload(row) ])
            /\ lastOp' = Idle
            /\ UNCHANGED << mapVars, clockVars, appVars, storeVars, voteCalls,
                            loadCalls, deleteCalls, accepted, votesCast,
                            otherWrites, score0, variant, gps >>

\* saveMessage records Date.now() and returns (761-763); handleSaveMessage
\* calls loadData (125)
SavePostReturn ==
    \E i \in DOMAIN saveCalls :
        LET c == saveCalls[i]
        IN  /\ c.stage = "post-return"
            /\ Len(loadCalls) < MaxInFlight
            /\ lastPostTs' = << now >>
            /\ saveCalls' = RemoveAt(saveCalls, i)
            /\ loadCalls' =
                 Append(loadCalls, [ stage |-> "fetch", data |-> << >> ])
            /\ lastOp' = Idle
            /\ UNCHANGED << mapVars, clockVars, appVars, userVotes, stored,
                            serverVars, voteCalls, deleteCalls, histVars,
                            envVars >>

\* ------------------------------------------------------------ realtime
\* whether this session's handleSave has already prepended message `id`
Prepended(id) ==
    /\ \E o \in origin : o.id = id
    /\ ~ \E i \in DOMAIN saveCalls : saveCalls[i].msg.id = id

\* the subscription takes the oldest waiting event and calls the callback of
\* App.tsx 53-79, or that of part_000 42-58, whose subscription passes on
\* INSERT and DELETE only (storageService.ts 806-828)
DeliverPush ==
    /\ channel # << >>
    /\ LET ev == Head(channel)
       IN  /\ IF variant = "toggle"
              THEN Commit(mergeEvent(messages, ev), mergeChanges(messages, ev))
              ELSE IF ev.type = "UPDATE"
              THEN Commit(messages, FALSE)
              ELSE Commit(mergeEventPlain(messages, ev), TRUE)
           /\ lastOp' = [ op |-> "push", type |-> ev.type, id |-> ev.id,
                          own |-> Prepended(ev.id),
                          countBefore |-> CountId(messages, ev.id) ]
    /\ channel' = Tail(channel)
    /\ UNCHANGED << mapVars, clockVars, rateLimit, storeVars, posts, callVars,
                    histVars, envVars >>

\* ------------------------------------------------------------ other sessions
\* another session's saveMessage reaches the table: a new top-level post
OtherInsert ==
    /\ otherWrites < MaxOtherWrites
    /\ Len(channel) < MaxChannel
    /\ LET row == Row(nextId, now, 6040000, 2567000, Other, 0, NoParent)
       IN  /\ posts' = posts \cup { row }
           /\ channel' = Append(channel,
                [ type |-> "INSERT", id |-> row.id,
                  message |-> mapPayload(row) ])
    /\ nextId' = nextId + 1
    /\ otherWrites' = otherWrites + 1
    /\ lastOp' = Idle
    /\ UNCHANGED << mapVars, clockVars, appVars, storeVars, callVars, origin,
                    accepted, votesCast, score0, variant, gps >>

\* another session's saveMessage reaches the table: a reply to a post
OtherReply ==
    /\ otherWrites < MaxOtherWrites
    /\ Len(channel) < MaxChannel
    /\ \E parent \in { r \in posts : r.parent_post_id = NoParent } :
         LET row == Row(nextId, now, 6040000, 2567000, Other, 0, parent.id)
         IN  /\ posts' = posts \cup { row }
             /\ channel' = Append(channel,
                  [ type |-> "INSERT", id |-> row.id,
                    message |-> mapPayload(row) ])
    /\ nextId' = nextId + 1
    /\ otherWrites' = otherWrites + 1
    /\ lastOp' = Idle
    /\ UNCHANGED << mapVars, clockVars, appVars, storeVars, callVars, origin,
                    accepted, votesCast, score0, variant, gps >>

\* another session's castVote reaches the table: a score is rewritten
OtherUpdate ==
    /\ otherWrites < MaxOtherWrites
    /\ Len(channel) < MaxChannel
    /\ \E r \in posts, d \in { -1, 1 } :
         LET row == [ r EXCEPT !.score = @ + d ]
         IN  /\ posts' = (posts \ { r }) \cup { row }
             /\ channel' = Append(channel,
                  [ type |-> "UPDATE", id |-> row.id,
                    message |-> mapPayload(row) ])
    /\ otherWrites' = otherWrites + 1
    /\ lastOp' = Idle
    /\ UNCHANGED << mapVars, clockVars, appVars, storeVars, callVars, origin,
                    accepted, votesCast, score0, envVars >>

\* another session's deleteMessage reaches the table: the hard delete
OtherDelete ==
    /\ otherWrites < MaxOtherWrites
    /\ Len(channel) < MaxChannel
    /\ \E r \in posts :
         /\ r.session_id = Other
         /\ posts' = posts \ { r }
         /\ channel' = Append(channel, [ type |-> "DELETE", id |-> r.id ])
    /\ otherWrites' = otherWrites + 1
    /\ lastOp' = Idle
    /\ UNCHANGED << mapVars, clockVars, appVars, storeVars, callVars, origin,
                    accepted, votesCast, score0, envVars >>

\* ------------------------------------------------------------ loadData
\* the clock when the page loads
StartTime == MESSAGE_LIFESPAN_MS

\* generateSeedData: maxAge = MESSAGE_LIFESPAN_MS - SEED_MARGIN_MS
SEED_MARGIN_MS == 10000
SEED_ID == 1000

\* SEED_MESSAGES, generated when the module loads: timeOffset is any of
\* 0 .. maxAge - 1 (here the two ends), newest first
SEED_MESSAGES ==
    << ChatMessage(SEED_ID, StartTime, 6017000, 2494000, "seed-user", 0,
                   NoParent, 0),
       ChatMessage(SEED_ID + 1,
                   StartTime - (MESSAGE_LIFESPAN_MS - SEED_MARGIN_MS - 1),
                   6017000, 2494000, "seed-user", 0, NoParent, 0) >>

\* getLocalMessages(true): the list it returns and what it leaves in storage
getLocalMessages(st, t) ==
    IF st = << >>
    THEN [ data |-> SelectSeq(SEED_MESSAGES, LAMBDA m : m.parentId = NoParent),
           stored |-> << SEED_MESSAGES >> ]
    ELSE [ data |-> SelectSeq(SelectSeq(st[1], LAMBDA m : localKeeps(m, t)),
                              LAMBDA m : m.parentId = NoParent),
           stored |-> st ]

\* loadData is called: on mount, by the feed's refresh button, and by
\* handleDelete when the delete failed
Refresh ==
    /\ Len(loadCalls) < MaxInFlight
    /\ loadCalls' = Append(loadCalls, [ stage |-> "fetch", data |-> << >> ])
    /\ lastOp' = Idle
    /\ UNCHANGED << mapVars, clockVars, appVars, storeVars, serverVars, saveCalls,
                    voteCalls, histVars, envVars, deleteCalls >>

\* fetchMessages' query is answered from the table
LoadFetch ==
    \E i \in DOMAIN loadCalls, data \in fetchMessages(posts) :
        /\ loadCalls[i].stage = "fetch"
        /\ loadCalls' = [ loadCalls EXCEPT ![i] =
                            [ stage |-> "apply", data |-> data ] ]
        /\ lastOp' = Idle
        /\ UNCHANGED << mapVars, clockVars, appVars, storeVars, serverVars, saveCalls,
                        voteCalls, histVars, envVars, deleteCalls >>

\* fetchMessages' query fails: it returns getLocalMessages(onlyRoot)
LoadFetchFails ==
    \E i \in DOMAIN loadCalls :
        LET local == getLocalMessages(stored, now)
        IN  /\ loadCalls[i].stage = "fetch"
            /\ loadCalls' = [ loadCalls EXCEPT ![i] =
                                [ stage |-> "apply", data |-> local.data ] ]
            /\ stored' = local.stored
            /\ lastOp' = [ op |-> "loadLocal", at |-> now,
                           input |-> local.stored[1], output |-> local.data ]
            /\ UNCHANGED << mapVars, clockVars, appVars, lastPostTs, userVotes,
                            serverVars, saveCalls, voteCalls, histVars,
                            envVars, deleteCalls >>

\* loadData after the await: setMessages(data), then the rate-limit status
LoadApply ==
    \E i \in DOMAIN loadCalls :
        /\ loadCalls[i].stage = "apply"
        /\ Commit(loadCalls[i].data, TRUE)
        /\ rateLimit' \in getRateLimitStatus(posts, now)
        /\ loadCalls' = RemoveAt(loadCalls, i)
        /\ lastOp' = [ op |-> "loadApply" ]
        /\ UNCHANGED << mapVars, clockVars, storeVars, serverVars, saveCalls,
                        voteCalls, histVars, envVars, deleteCalls >>

\* ------------------------------------------------------------ prune, viewport
PRUNE_INTERVAL_MS == 60000

\* the setInterval callback of App.tsx 83-100
Prune ==
    /\ now >= StartTime + PRUNE_INTERVAL_MS
    /\ LET validMessages == SelectSeq(messages, LAMBDA m : pruneKeeps(m, now))
       IN  Commit(IF Len(validMessages) # Len(messages)
                  THEN validMessages ELSE messages,
                  Len(validMessages) # Len(messages))
    /\ lastOp' = [ op |-> "prune", at |-> now, input |-> messages ]
    /\ UNCHANGED << mapVars, clockVars, rateLimit, storeVars, serverVars, callVars,
                    histVars, envVars >>

\* handleViewportChange: the map reports its bounds; the cluster filter is
\* cleared and the visibleMessages effect runs
ViewportChange ==
    \E b \in Viewports :
        /\ currentBounds' = << b >>
        /\ filteredClusterMessages' = << >>
        /\ visibleMessages' =
             visibleEffect(messages, << b >>, << >>, now, visibleMessages)
        /\ lastOp' = [ op |-> "viewport", at |-> now ]
        /\ UNCHANGED << mapVars, clockVars, messages, rateLimit, storeVars,
                        serverVars, callVars, histVars, envVars >>

\* the geocoder's answer for a coordinate: the one-degree cell it lies in
getCityName(lat, lng) == << lat \div 100000, lng \div 100000 >>

\* aggregateMessagesByCity: the messages of the hub that holds m
hubMessages(msgs, m) ==
    SelectSeq(msgs, LAMBDA x :
        getCityName(x.lat, x.lng) = getCityName(m.lat, m.lng))

\* handleClusterClick: a hub marker of the map, built from `messages`, is
\* clicked
ClusterClick ==
    \E i \in DOMAIN messages :
        LET clusterMessages == hubMessages(messages, messages[i])
        IN  /\ filteredClusterMessages' = << clusterMessages >>
            /\ visibleMessages' =
                 visibleEffect(messages, currentBounds, << clusterMessages >>,
                               now, visibleMessages)
            /\ lastOp' = [ op |-> "cluster" ]
            /\ UNCHANGED << mapVars, clockVars, messages, currentBounds, rateLimit,
                            storeVars, serverVars, callVars, histVars,
                            envVars >>

\* handleClearCluster
ClearCluster ==
    /\ filteredClusterMessages # << >>
    /\ filteredClusterMessages' = << >>
    /\ visibleMessages' =
         visibleEffect(messages, currentBounds, << >>, now, visibleMessages)
    /\ lastOp' = [ op |-> "clearCluster" ]
    /\ UNCHANGED << mapVars, clockVars, messages, currentBounds, rateLimit, storeVars,
                    serverVars, callVars, histVars, envVars >>

\* ------------------------------------------------------------ handleVote
\* castVote up to its first await: the vote record it stores and the
\* scoreDelta it will add to the row (none where no score is written)
castVote(previousVote, direction) ==
    IF variant = "toggle"
    THEN [ newVote |-> castVoteRecord(previousVote, direction),
           scoreDelta |-> castVoteDelta(previousVote, direction) ]
    ELSE [ newVote |-> castVoteOverwrite(previousVote, direction),
           scoreDelta |-> 0 ]

\* App.handleVote from a vote button of the feed: the optimistic score
\* change, then castVote up to its first await
HandleVoteWithin(limit) ==
    \E i \in DOMAIN visibleMessages, direction \in Directions :
        LET msgId == visibleMessages[i].id
            previousVote == getVote(userVotes, msgId)
            v == castVote(previousVote, direction)
        IN  /\ votesCast < MaxVotes
            /\ Len(voteCalls) < limit
            /\ Commit(handleVoteLocal(messages, msgId, direction), TRUE)
            /\ userVotes' = setVote(userVotes, msgId, v.newVote)
            /\ voteCalls' =
                 IF variant = "toggle"
                 THEN Append(voteCalls, [ id |-> msgId, stage |-> "select",
                                          scoreDelta |-> v.scoreDelta,
                                          newScore |-> 0 ])
                 ELSE voteCalls
            /\ votesCast' = votesCast + 1
            /\ lastOp' = [ op |-> "castVote", id |-> msgId,
                           previousVote |-> previousVote,
                           direction |-> direction, newVote |-> v.newVote,
                           scoreDelta |-> v.scoreDelta ]
            /\ UNCHANGED << mapVars, clockVars, rateLimit, lastPostTs, stored,
                            serverVars, saveCalls, loadCalls, origin,
                            accepted, otherWrites, score0, envVars,
                            deleteCalls >>

\* handleVote with each castVote finished before the next button press
HandleVote == HandleVoteWithin(MaxInFlight)

\* handleVote with button presses while earlier castVote calls are awaiting
HandleVoteOverlapping == HandleVoteWithin(MaxVoteCalls)

\* castVote's select('score') is answered; with no such row `data` is null
\* and castVote returns
VoteSelect ==
    \E i \in DOMAIN voteCalls :
        LET c == voteCalls[i]
            data == { r \in posts : r.id = c.id }
        IN  /\ c.stage = "select"
            /\ voteCalls' =
                 IF data = {} THEN RemoveAt(voteCalls, i)
                 ELSE [ voteCalls EXCEPT
                          ![i].stage = "update",
                          ![i].newScore =
                             (CHOOSE r \in data : TRUE).score + c.scoreDelta ]
            /\ lastOp' = Idle
            /\ UNCHANGED << mapVars, clockVars, appVars, storeVars, serverVars,
                            saveCalls, loadCalls, histVars, envVars,
                            deleteCalls >>

\* castVote's update({ score: newScore }) reaches the table and is published
VoteUpdate ==
    \E i \in DOMAIN voteCalls :
        LET c == voteCalls[i]
            data == { r \in posts : r.id = c.id }
        IN  /\ c.stage = "update"
            /\ data # {} => Len(channel) < MaxChannel
            /\ voteCalls' = RemoveAt(voteCalls, i)
            /\ IF data = {}
               THEN UNCHANGED << posts, channel >>
               ELSE LET r == CHOOSE x \in data : TRUE
                        row == [ r EXCEPT !.score = c.newScore ]
                    IN  /\ posts' = (posts \ { r }) \cup { row }
                        /\ channel' = Append(channel,
                             [ type |-> "UPDATE", id |-> row.id,
                               message |-> mapPayload(row) ])
            /\ lastOp' = Idle
            /\ UNCHANGED << mapVars, clockVars, appVars, storeVars, saveCalls,
                            loadCalls, histVars, envVars, deleteCalls >>

\* ------------------------------------------------------------ delete
\* the score deleteMessage's fallback writes (the "soft delete")
SOFT_DELETE_SCORE == -1000

\* what deleteMessage resolves to, given whether the hard delete failed:
\* `return true` on both paths (314, 317)
deleteMessage(failed) == TRUE

\* handleDelete up to the table request (App.tsx 221-236): the delete button
\* of one of the session's own messages in the feed; deleteMessage has removed
\* the message from local storage (283-294)
HandleDelete ==
    /\ Len(deleteCalls) < MaxInFlight
    /\ \E i \in DOMAIN visibleMessages :
         LET m == visibleMessages[i]
             keep(x) == x.id # m.id
             next ==
               IF m.parentId # NoParent
               THEN [ j \in DOMAIN messages |->
                        IF messages[j].id = m.parentId
                        THEN [ messages[j] EXCEPT !.replyCount =
                                 IF @ > 0 THEN @ - 1 ELSE 0 ]
                        ELSE messages[j] ]
               ELSE SelectSeq(messages, keep)
             cluster ==
               IF m.parentId # NoParent \/ filteredClusterMessages = << >>
               THEN filteredClusterMessages
               ELSE << SelectSeq(filteredClusterMessages[1], keep) >>
         IN  /\ m.sessionId = Me
             /\ messages' = next
             /\ filteredClusterMessages' = cluster
             /\ visibleMessages' =
                  visibleEffect(next, currentBounds, cluster, now,
                                visibleMessages)
             /\ stored' = IF stored = << >> THEN stored
                          ELSE << SelectSeq(stored[1], keep) >>
             /\ deleteCalls' = Append(deleteCalls,
                  [ id |-> m.id, stage |-> "delete", failed |-> FALSE ])
             /\ lastOp' = [ op |-> "delete", id |-> m.id ]
    /\ UNCHANGED << mapVars, clockVars, currentBounds, rateLimit, lastPostTs,
                    userVotes, serverVars, saveCalls, voteCalls, loadCalls,
                    histVars, envVars >>

\* the table executes the hard delete (301-304) and publishes it
DeleteHard ==
    \E i \in DOMAIN deleteCalls :
        LET c == deleteCalls[i]
            data == { r \in posts : r.id = c.id }
        IN  /\ c.stage = "delete"
            /\ data # {}
            /\ Len(channel) < MaxChannel
            /\ posts' = posts \ data
            /\ channel' = Append(channel, [ type |-> "DELETE", id |-> c.id ])
            /\ deleteCalls' = [ deleteCalls EXCEPT ![i].stage = "return" ]
            /\ lastOp' = Idle
            /\ UNCHANGED << mapVars, clockVars, appVars, storeVars, saveCalls,
                            voteCalls, loadCalls, histVars, envVars >>

\* the hard delete answers with an error or with count 0; deleteMessage
\* falls back to the update of the score (306-312), which the table executes
\* or not
DeleteHardFails ==
    \E i \in DOMAIN deleteCalls, soft \in BOOLEAN :
        LET c == deleteCalls[i]
            data == { r \in posts : r.id = c.id }
        IN  /\ c.stage = "delete"
            /\ soft => data # {} /\ Len(channel) < MaxChannel
            /\ IF soft
               THEN LET r == CHOOSE x \in data : TRUE
                        row == [ r EXCEPT !.score = SOFT_DELETE_SCORE ]
                    IN  /\ posts' = (posts \ { r }) \cup { row }
                        /\ channel' = Append(channel,
                             [ type |-> "UPDATE", id |-> row.id,
                               message |-> mapPayload(row) ])
               ELSE UNCHANGED << posts, channel >>
            /\ deleteCalls' = [ deleteCalls EXCEPT ![i].stage = "return",
                                                   ![i].failed = TRUE ]
            /\ lastOp' = Idle
            /\ UNCHANGED << mapVars, clockVars, appVars, storeVars, saveCalls,
                            voteCalls, loadCalls, histVars, envVars >>

\* deleteMessage resolves and handleDelete continues (App.tsx 236-240):
\* loadData is called when the result is false
DeleteReturn ==
    \E i \in DOMAIN deleteCalls :
        LET c == deleteCalls[i]
            success == deleteMessage(c.failed)
        IN  /\ c.stage = "return"
            /\ deleteCalls' = RemoveAt(deleteCalls, i)
            /\ loadCalls' =
                 IF ~ success
                 THEN Append(loadCalls, [ stage |-> "fetch", data |-> << >> ])
                 ELSE loadCalls
            /\ lastOp' = [ op |-> "deleteReturn", id |-> c.id,
                           failed |-> c.failed ]
            /\ UNCHANGED << mapVars, clockVars, appVars, storeVars, serverVars,
                            saveCalls, voteCalls, histVars, envVars >>

\* ------------------------------------------------------------ map zoom
\* zoom levels are held in tenths: 100 stands for zoom 10
\* the finest H3 resolution the map may show (the "privacy clamp")
PRIVACY_CLAMP_RES == 8

\* a zoom-to-resolution mapping without the clamp: finer cells at street zoom
getH3ResolutionUnclamped(z) ==
    IF z > 140 THEN 10
    ELSE IF z > 100 THEN 8
    ELSE IF z >= 70 THEN 7
    ELSE 5

\* getH3Resolution(zoom)
getH3Resolution(z) ==
    IF z > 100 THEN 8
    ELSE IF z >= 70 THEN 7
    ELSE 5

\* the resolution table of ChatMap's hexData (the later `if` wins)
hexDataResolution(z) ==
    IF z >= 110 THEN 7
    ELSE IF z >= 90 THEN 6
    ELSE IF z >= 60 THEN 5
    ELSE 4

\* the zoom levels the map is taken through: the thresholds of both tables,
\* their neighbours, and levels far beyond them
Zooms ==
    { 20, 25, 50, 59, 60, 69, 70, 89, 90, 100, 101, 109, 110, 140, 141,
      180, 220 }

\* MapController: zoomend -> setZoom(map.getZoom())
SetZoom ==
    \E z \in Zooms :
        /\ z # zoom
        /\ zoom' = z
        /\ lastOp' = [ op |-> "zoom", from |-> zoom, to |-> z,
                       resFrom |-> getH3Resolution(zoom),
                       resTo |-> getH3Resolution(z),
                       tableFrom |-> hexDataResolution(zoom),
                       tableTo |-> hexDataResolution(z) ]
        /\ UNCHANGED << hubs, clockVars, appVars, storeVars, serverVars,
                        callVars, histVars, envVars >>

\* ------------------------------------------------------------ aggregation
\* h3-js, as a square grid: the edge of a cell of resolution res, in units
\* of 1e-5 degree
h3CellSize(res) ==
    CASE res >= 8 -> 500
      [] res = 7 -> 1300
      [] res = 6 -> 3500
      [] res = 5 -> 9000
      [] OTHER -> 24000

\* h3.latLngToCell
latLngToCell(lat, lng, res) ==
    << res, lat \div h3CellSize(res), lng \div h3CellSize(res) >>

\* h3.cellToLatLng: the centre of the cell
cellToLatLng(cell) ==
    [ lat |-> cell[2] * h3CellSize(cell[1]) + h3CellSize(cell[1]) \div 2,
      lng |-> cell[3] * h3CellSize(cell[1]) + h3CellSize(cell[1]) \div 2 ]

\* aggregateMessagesByDistrict: PRECISION = 100, two decimal places; a grid
\* step in units of 1e-5 degree
DISTRICT_STEP == 1000

\* Math.round(x * PRECISION) / PRECISION
snapToGrid(x) == ((2 * x + DISTRICT_STEP) \div (2 * DISTRICT_STEP)) * DISTRICT_STEP

\* the key under which each aggregation files a message
hubKey(kind, m, res) ==
    CASE kind = "city" -> getCityName(m.lat, m.lng)
      [] kind = "district" -> << snapToGrid(m.lat), snapToGrid(m.lng) >>
      [] OTHER -> latLngToCell(m.lat, m.lng, res)

\* the keys of a Map in insertion order: each key where it first occurs
RECURSIVE mapKeys(_)
mapKeys(ks) ==
    IF ks = << >> THEN << >>
    ELSE LET front == mapKeys(SubSeq(ks, 1, Len(ks) - 1))
             last == ks[Len(ks)]
         IN  IF \E i \in DOMAIN front : front[i] = last
             THEN front ELSE Append(front, last)

\* a hub that keeps only the message that created it
hubMembersFirstOnly(msgs, ks, k) ==
    << msgs[CHOOSE i \in DOMAIN msgs :
              ks[i] = k /\ \A j \in DOMAIN msgs : ks[j] = k => i <= j] >>

\* hub.messages after the forEach: every message filed under key k, in order
hubMembers(msgs, ks, k) ==
    LET idx == { i \in DOMAIN msgs : ks[i] = k }
        RECURSIVE pick(_)
        pick(n) ==
            IF n = 0 THEN << >>
            ELSE IF n \in idx THEN Append(pick(n - 1), msgs[n])
            ELSE pick(n - 1)
    IN  pick(Len(msgs))

\* Math.max over a sequence of messages' timestamps, from 0
RECURSIVE latestOf(_)
latestOf(ms) ==
    IF ms = << >> THEN 0
    ELSE LET rest == latestOf(Tail(ms))
         IN  IF Head(ms).timestamp > rest THEN Head(ms).timestamp ELSE rest

RECURSIVE sumLat(_)
sumLat(ms) == IF ms = << >> THEN 0 ELSE Head(ms).lat + sumLat(Tail(ms))

RECURSIVE sumLng(_)
sumLng(ms) == IF ms = << >> THEN 0 ELSE Head(ms).lng + sumLng(Tail(ms))

\* the centre each aggregation gives a hub: the mean of its members (city),
\* the snapped grid point (district), the cell's centre (hexagon)
hubCenter(kind, k, members) ==
    CASE kind = "city" -> [ lat |-> sumLat(members) \div Len(members),
                            lng |-> sumLng(members) \div Len(members) ]
      [] kind = "district" -> [ lat |-> k[1], lng |-> k[2] ]
      [] OTHER -> cellToLatLng(k)

\* Array.prototype.sort((a, b) => b.count - a.count): stable, so hubs of
\* equal count stay in the order the Map holds them
RECURSIVE sortByCount(_)
sortByCount(hs) ==
    IF hs = << >> THEN << >>
    ELSE LET front == sortByCount(SubSeq(hs, 1, Len(hs) - 1))
             x == hs[Len(hs)]
             k == Cardinality({ i \in DOMAIN front : front[i].count >= x.count })
         IN  SubSeq(front, 1, k) \o << x >> \o SubSeq(front, k + 1, Len(front))

\* aggregateMessagesByCity / ByDistrict / ByHexagon(messages, resolution)
aggregateMessages(kind, msgs, res) ==
    LET ks == [ i \in DOMAIN msgs |-> hubKey(kind, msgs[i], res) ]
        keys == mapKeys(ks)
    IN  sortByCount(
          [ n \in DOMAIN keys |->
              LET members == hubMembers(msgs, ks, keys[n])
              IN  [ id |-> keys[n],
                    center |-> hubCenter(kind, keys[n], members),
                    count |-> Len(members),
                    messages |-> members,
                    latestTimestamp |->
                        IF kind = "district" THEN 0 ELSE latestOf(members) ] ])

AggregationKinds == { "city", "district", "hexagon" }

\* ChatMap renders: useMemo recomputes the hubs from the `messages` prop
RenderMap ==
    \E kind \in AggregationKinds :
        /\ hubs' = aggregateMessages(kind, messages, getH3Resolution(zoom))
        /\ lastOp' = [ op |-> "aggregate", kind |-> kind, input |-> messages ]
        /\ UNCHANGED << zoom, clockVars, appVars, storeVars, serverVars,
                        callVars, histVars, envVars >>

\* ------------------------------------------------------------ initial states
\* a top-level post of another session, made one cooldown before the load
OtherPost(id, score) ==
    Row(id, StartTime - SPAM_RATE_LIMIT_MS, 6040000, 2567000, Other, score,
        NoParent)

\* n earlier posts of this session, replies to the post with id `parent`,
\* one cooldown apart, the last one a cooldown before the load
PriorPosts(n, coord, parent) ==
    { Row(parent + k, StartTime - (n - k + 1) * SPAM_RATE_LIMIT_MS, coord.lat,
          coord.lng, Me, 0, parent) : k \in 1..n }

PriorTimes(n) ==
    [ k \in 1..n |-> StartTime - (n - k + 1) * SPAM_RATE_LIMIT_MS ]

MaxRowId(rows) ==
    IF rows = {} THEN 0
    ELSE CHOOSE k \in { r.id : r \in rows } : \A r \in rows : r.id <= k

\* the page has loaded: `messages` holds what the first loadData fetched,
\* local storage holds what earlier sessions left
Loaded(rows, msgs, bounds, last, acc, v, g) ==
    /\ now = StartTime
    /\ ticks = 0
    /\ variant = v
    /\ messages = msgs
    /\ currentBounds = bounds
    /\ filteredClusterMessages = << >>
    /\ visibleMessages =
         visibleEffect(msgs, bounds, << >>, StartTime, << >>)
    /\ rateLimit \in getRateLimitStatus(rows, StartTime)
    /\ posts = rows
    /\ channel = << >>
    /\ lastPostTs = last
    /\ userVotes = << >>
    /\ stored = << >>
    /\ saveCalls = << >>
    /\ voteCalls = << >>
    /\ loadCalls = << >>
    /\ deleteCalls = << >>
    /\ nextId = MaxRowId(rows) + 1
    /\ zoom = INITIAL_ZOOM
    /\ hubs = << >>
    /\ gps = g
    /\ origin = {}
    /\ accepted = acc
    /\ votesCast = 0
    /\ otherWrites = 0
    /\ score0 = [ id \in SeqIds(msgs) |->
                    msgs[findIndex(msgs, id)].score ]
    /\ lastOp = [ op |-> "init" ]

\* ------------------------------------------------------------ rate limiting
\* the session has posted n times before (n = 0, or one short of the quota);
\* another session's post is on the map
InitRate ==
    \E n \in { 0, MAX_POSTS_PER_WINDOW - 1 }, g \in { Home } :
        LET rows == PriorPosts(n, g, 1) \cup { OtherPost(1, 0) }
        IN  \E msgs \in fetchMessages(rows) :
              Loaded(rows, msgs, << World >>,
                     IF n = 0 THEN << >>
                     ELSE << StartTime - SPAM_RATE_LIMIT_MS >>,
                     PriorTimes(n), "toggle", g)

NextRate ==
    \/ \E d \in { 1, SPAM_RATE_LIMIT_MS - 1 } : Tick(d)
    \/ \E text \in Texts : HandleSave(text)
    \/ \E text \in Texts : HandleReply(text)
    \/ SaveInsert
    \/ SaveReturn

SpecRate == InitRate /\ [][NextRate]_vars

\* ------------------------------------------------------------ reconciliation
\* a top-level post of another session that reaches the end of its lifespan
\* one prune interval after the load
OldPost(id, score) ==
    Row(id, StartTime - MESSAGE_LIFESPAN_MS + PRUNE_INTERVAL_MS, 6040000,
        2567000, Other, score, NoParent)

\* the page has loaded a post of another session; the map has not yet
\* reported its bounds
InitReconcile ==
    LET rows == { OldPost(1, 0) }
    IN  \E msgs \in fetchMessages(rows) :
          Loaded(rows, msgs, << >>, << >>, << >>, "toggle", Home)

NextReconcile ==
    \/ Tick(PRUNE_INTERVAL_MS)
    \/ HandleSave("hello")
    \/ SaveInsert
    \/ SaveReturn
    \/ DeliverPush
    \/ OtherInsert
    \/ OtherUpdate
    \/ OtherDelete
    \/ Refresh
    \/ LoadFetch
    \/ LoadApply
    \/ Prune

SpecReconcile == InitReconcile /\ [][NextReconcile]_vars

\* the submission, its echo, and what can come between them: another
\* session's insert and a bulk refresh
NextEcho ==
    \/ HandleSave("hello")
    \/ SaveInsert
    \/ SaveReturn
    \/ DeliverPush
    \/ OtherInsert
    \/ Refresh
    \/ LoadFetch
    \/ LoadApply

SpecEcho == InitReconcile /\ [][NextEcho]_vars

\* ------------------------------------------------------------ lifecycle
\* the page has loaded a fresh post, a post at the hide threshold's edge and
\* a post about to expire; the map has reported its bounds
InitLife ==
    LET rows == { OtherPost(1, 0), OtherPost(2, SCORE_THRESHOLD_HIDE + 1),
                  OldPost(3, 0) }
    IN  \E msgs \in fetchMessages(rows) :
          Loaded(rows, msgs, << World >>, << >>, << >>, "toggle", Home)

NextLife ==
    \/ \E d \in { SEED_MARGIN_MS + 1, PRUNE_INTERVAL_MS } : Tick(d)
    \/ Prune
    \/ ViewportChange
    \/ OtherUpdate
    \/ DeliverPush
    \/ Refresh
    \/ LoadFetch
    \/ LoadFetchFails
    \/ LoadApply

SpecLife == InitLife /\ [][NextLife]_vars

\* ------------------------------------------------------------ outputs
\* the page has loaded a fresh post and a post one down-vote above the hide
\* threshold; the map has reported its bounds
InitView ==
    LET rows == { OtherPost(1, 0), OtherPost(2, SCORE_THRESHOLD_HIDE + 1) }
    IN  \E msgs \in fetchMessages(rows) :
          Loaded(rows, msgs, << World >>, << >>, << >>, "toggle", Home)

NextView ==
    \/ HandleVote
    \/ VoteSelect
    \/ VoteUpdate
    \/ DeliverPush
    \/ ViewportChange
    \/ ClusterClick
    \/ ClearCluster
    \/ Refresh
    \/ LoadFetch
    \/ LoadApply

SpecView == InitView /\ [][NextView]_vars

\* ------------------------------------------------------------ voting
\* the page has loaded two posts of other sessions; either castVote is linked
InitVote ==
    LET rows == { OtherPost(1, 0), OtherPost(2, 3) }
    IN  \E msgs \in fetchMessages(rows), v \in { "toggle", "overwrite" } :
          Loaded(rows, msgs, << World >>, << >>, << >>, v, Home)

NextVote ==
    \/ HandleVote
    \/ VoteSelect
    \/ VoteUpdate
    \/ DeliverPush

SpecVote == InitVote /\ [][NextVote]_vars

\* ------------------------------------------------------------ the map
\* posts made at the same moment: two in one district of Porvoo, one in
\* New York
MapPosts ==
    { Row(1, StartTime, 6039100, 2566100, Other, 0, NoParent),
      Row(2, StartTime, 6039200, 2566200, Other, 0, NoParent),
      Row(3, StartTime, 4071280, -7400600, Other, 0, NoParent) }

\* the page has loaded any of these posts, in any order
InitMap ==
    \E rows \in SUBSET MapPosts :
        \E msgs \in fetchMessages(rows) :
            Loaded(rows, msgs, << World >>, << >>, << >>, "toggle", Home)

NextMap ==
    \/ SetZoom
    \/ RenderMap

SpecMap == InitMap /\ [][NextMap]_vars

\* ------------------------------------------------------------ threads
\* a reply of another session to the post `parent`
OtherReplyTo(id, parent) ==
    Row(id, StartTime - SPAM_RATE_LIMIT_MS, 6040000, 2567000, Other, 0, parent)

\* the page has loaded two posts of other sessions, one with a reply of
\* this session and one with a reply of another; either App is running
InitThread ==
    LET rows == { OtherPost(1, 0), OtherPost(2, 0), OtherReplyTo(4, 1) }
                  \cup PriorPosts(1, Home, 2)
    IN  \E msgs \in fetchMessages(rows), v \in { "toggle", "overwrite" } :
          Loaded(rows, msgs, << World >>, << StartTime - SPAM_RATE_LIMIT_MS >>,
                 PriorTimes(1), v, Home)

\* replies of this session (App.tsx's handleReply) and of others, votes on
\* any row, and refreshes
NextThread ==
    \/ variant = "toggle" /\ HandleReply("hello")
    \/ SaveInsert
    \/ SaveReturn
    \/ OtherReply
    \/ OtherUpdate
    \/ DeliverPush
    \/ Refresh
    \/ LoadFetch
    \/ LoadApply

SpecThread == InitThread /\ [][NextThread]_vars

\* the page has loaded two posts of other sessions
InitReply ==
    LET rows == { OtherPost(1, 0), OtherPost(2, 0) }
    IN  \E msgs \in fetchMessages(rows) :
          Loaded(rows, msgs, << World >>, << >>, << >>, "toggle", Home)

\* replies of this session and their echoes, a cooldown apart
NextReply ==
    \/ Tick(SPAM_RATE_LIMIT_MS)
    \/ HandleReply("hello")
    \/ SaveInsert
    \/ SaveReturn
    \/ DeliverPush

SpecReply == InitReply /\ [][NextReply]_vars

\* ------------------------------------------------------------ deleting
\* a post of this session, of any score
OwnPost(id, score) ==
    Row(id, StartTime - SPAM_RATE_LIMIT_MS, Home.lat, Home.lng, Me, score,
        NoParent)

\* the page has loaded a recent and an old post of other sessions and two
\* posts of this session, with differing scores; the map shows the world
InitDelete ==
    LET rows == { OtherPost(1, 3), OldPost(2, -2), OwnPost(3, 0),
                  OwnPost(4, -1) }
    IN  \E msgs \in fetchMessages(rows) :
          Loaded(rows, msgs, << World >>, << StartTime - SPAM_RATE_LIMIT_MS >>,
                 << >>, "toggle", Home)

\* deletes by this session and by others, and their events
NextDelete ==
    \/ HandleDelete
    \/ DeleteHard
    \/ DeleteHardFails
    \/ DeleteReturn
    \/ OtherDelete
    \/ DeliverPush

SpecDelete == InitDelete /\ [][NextDelete]_vars

\* ------------------------------------------------------------ persistence
\* the page has loaded a post of another session; the map shows the world
InitPersist ==
    LET rows == { OtherPost(1, 0) }
    IN  \E msgs \in fetchMessages(rows) :
          Loaded(rows, msgs, << World >>, << >>, << >>, "toggle", Home)

\* submissions whose insert the table executes or refuses, and refreshes
NextPersist ==
    \/ Tick(SPAM_RATE_LIMIT_MS)
    \/ HandleSave("hello")
    \/ SaveInsert
    \/ SaveInsertFails
    \/ SaveReturn
    \/ DeliverPush
    \/ Refresh
    \/ LoadFetch
    \/ LoadApply

SpecPersist == InitPersist /\ [][NextPersist]_vars

\* ------------------------------------------------------------ locating
\* the page has loaded a post of another session; the device reports a
\* position or none, the map has reported a viewport or not, and either App
\* is running
InitLocate ==
    LET rows == { OtherPost(1, 0) }
    IN  \E msgs \in fetchMessages(rows), v \in { "toggle", "overwrite" },
           g \in { Home, NoFix }, bounds \in { << >>, << Porvoo >> } :
          Loaded(rows, msgs, bounds, << >>, << >>, v, g)

\* submissions of either App with and without a position
NextLocate ==
    \/ Tick(SPAM_RATE_LIMIT_MS)
    \/ variant = "toggle" /\ gps # NoFix /\ HandleSave("hello")
    \/ HandleSaveThrows
    \/ SaveInsert
    \/ SaveReturn
    \/ HandleSaveMessage("hello")
    \/ SavePostInsert
    \/ SavePostReturn
    \/ DeliverPush
    \/ LoadFetch
    \/ LoadApply

SpecLocate == InitLocate /\ [][NextLocate]_vars

\* ------------------------------------------------------------ pruning
\* the page has loaded a fresh post, a post one down-vote above the hide
\* threshold and a post a prune interval before the end of its lifespan;
\* either App is running
InitPrune ==
    LET rows == { OtherPost(1, 0), OtherPost(2, SCORE_THRESHOLD_HIDE + 1),
                  OldPost(3, 0) }
    IN  \E msgs \in fetchMessages(rows), v \in { "toggle", "overwrite" } :
          Loaded(rows, msgs, << World >>, << >>, << >>, v, Home)

\* the setInterval of App.tsx 83-100; the App of part_000 sets no interval
PruneTimer == variant = "toggle" /\ Prune

NextPrune ==
    \/ Tick(PRUNE_INTERVAL_MS)
    \/ PruneTimer
    \/ OtherUpdate
    \/ DeliverPush

\* time passes, and the interval keeps firing for as long as the page is open
SpecPrune ==
    /\ InitPrune
    /\ [][NextPrune]_vars
    /\ WF_vars(Tick(PRUNE_INTERVAL_MS))
    /\ WF_vars(PruneTimer)

\* the same with the App of App.tsx only
SpecPruneApp == (variant = "toggle") /\ SpecPrune

\* ------------------------------------------------------------ refreshing
\* the page has loaded two posts of other sessions
InitRefresh ==
    LET rows == { OtherPost(1, 0), OtherPost(2, 0) }
    IN  \E msgs \in fetchMessages(rows) :
          Loaded(rows, msgs, << World >>, << >>, << >>, "toggle", Home)

\* refreshes, and posts and deletes of other sessions with their events
NextRefresh ==
    \/ Refresh
    \/ LoadFetch
    \/ LoadApply
    \/ OtherInsert
    \/ OtherDelete
    \/ DeliverPush

SpecRefresh == InitRefresh /\ [][NextRefresh]_vars

\* ------------------------------------------------------------ overlapping votes
\* the page has loaded two posts of other sessions; the castVote of
\* storageService.ts 324-351 is linked
InitOverlap ==
    LET rows == { OtherPost(1, 0), OtherPost(2, 3) }
    IN  \E msgs \in fetchMessages(rows) :
          Loaded(rows, msgs, << World >>, << >>, << >>, "toggle", Home)

NextOverlap ==
    \/ HandleVoteOverlapping
    \/ VoteSelect
    \/ VoteUpdate
    \/ DeliverPush

SpecOverlap == InitOverlap /\ [][NextOverlap]_vars

\* ------------------------------------------------------------ properties
\* C1: when the Insert echo of the session's own message is delivered after
\* handleSave has prepended that message, the collection still holds exactly
\* one entry with its id
EchoAfterOptimisticKeepsOne ==
    ( /\ lastOp.op = "push"
      /\ lastOp.type = "INSERT"
      /\ lastOp.own
      /\ lastOp.countBefore = 1 )
    => CountId(messages, lastOp.id) = 1

\* C1 witness: such an echo has just been merged into the one entry
EchoMergedIntoOptimistic ==
    /\ lastOp.op = "push"
    /\ lastOp.type = "INSERT"
    /\ lastOp.own
    /\ lastOp.countBefore = 1
    /\ CountId(messages, lastOp.id) = 1

\* C2: no two entries of the canonical collection share an id
NoDuplicateIds ==
    \A i, j \in DOMAIN messages : messages[i].id = messages[j].id => i = j

\* the visibility predicate as the specification states it
isVisible(m, t) ==
    t - m.timestamp < MESSAGE_LIFESPAN_MS /\ m.score > SCORE_THRESHOLD_HIDE

\* the steps after which App renders its outputs anew
RenderOps ==
    { "push", "loadApply", "castVote", "prune", "viewport", "cluster",
      "clearCluster", "saveReturn" }

\* C3: the location persisted for a submission (and carried by the message it
\* returns) is never the raw device coordinate the submission read
PersistedLocationObfuscated ==
    \A r \in posts : \A o \in origin :
        o.id = r.id => ~ (r.latitude = o.lat /\ r.longitude = o.lng)

\* the accepted submissions among `times` that fall in the window ending at t
InWindow(times, t) ==
    { i \in DOMAIN times : times[i] > t - RATE_LIMIT_WINDOW_MS /\ times[i] <= t }

\* C6: with quota left, an attempt made cooldown-1 ms after the start of the
\* last accepted submission is rejected, and one made a full cooldown or more
\* after it is accepted
CooldownFromSubmissionTime ==
    ( /\ lastOp.op = "saveMessage"
      /\ lastOp.prior # << >>
      /\ moderateContent(lastOp.text)
      /\ Cardinality(InWindow(lastOp.prior, lastOp.at)) < MAX_POSTS_PER_WINDOW )
    => LET t == lastOp.prior[Len(lastOp.prior)]
       IN  /\ lastOp.at = t + SPAM_RATE_LIMIT_MS - 1
                => lastOp.outcome = "cooldown"
           /\ lastOp.at >= t + SPAM_RATE_LIMIT_MS
                => lastOp.outcome = "accepted"

\* C7: in every window of RATE_LIMIT_WINDOW_MS saveMessage accepts at most
\* MAX_POSTS_PER_WINDOW submissions of the actor
QuotaEnforced ==
    \A i \in DOMAIN accepted :
        Cardinality(InWindow(accepted, accepted[i])) <= MAX_POSTS_PER_WINDOW

\* C8: a rejected submission leaves the recorded last-submission time as it
\* was, and a recorded time is never earlier than some accepted submission
RejectionLeavesTimestamp ==
    /\ (lastOp.op = "saveMessage" /\ lastOp.outcome # "accepted")
          => lastPostTs = lastOp.before
    /\ lastPostTs # << >>
          => \E i \in DOMAIN accepted : accepted[i] <= lastPostTs[1]

\* C8 witness: an attempt made after a recorded submission, at a later time,
\* was rejected by the cooldown check
RejectedByCooldown ==
    /\ lastOp.op = "saveMessage"
    /\ lastOp.outcome = "cooldown"
    /\ lastOp.before # << >>
    /\ lastOp.at > lastOp.before[1]
    /\ lastPostTs = lastOp.before

\* C4: whenever App renders, every message of the list handed to the map
\* (`messages`) and of the feed list (visibleMessages) is visible at that time
OutputsAreVisible ==
    lastOp.op \in RenderOps =>
        /\ \A i \in DOMAIN messages : isVisible(messages[i], now)
        /\ \A i \in DOMAIN visibleMessages : isVisible(visibleMessages[i], now)

\* C5: the prune, the viewport filter and the local-storage loader each keep
\* a message exactly when now - createdAt < lifespan and score > hideThreshold
LifecycleFilterEverywhere ==
    /\ lastOp.op = "prune" =>
         messages = SelectSeq(lastOp.input,
                              LAMBDA m : isVisible(m, lastOp.at))
    /\ lastOp.op = "viewport" =>
         visibleMessages =
           SelectSeq(messages, LAMBDA m :
               /\ m.lat <= currentBounds[1].north
               /\ m.lat >= currentBounds[1].south
               /\ m.lng <= currentBounds[1].east
               /\ m.lng >= currentBounds[1].west
               /\ isVisible(m, lastOp.at))
    /\ lastOp.op = "loadLocal" =>
         lastOp.output =
           SelectSeq(lastOp.input, LAMBDA m :
               isVisible(m, lastOp.at) /\ m.parentId = NoParent)

\* the toggle table: (currentVote, requested) -> (vote record, score delta)
ToggleTable(currentVote, direction) ==
    CASE currentVote = "none" /\ direction = "up" -> << "up", 1 >>
      [] currentVote = "none" /\ direction = "down" -> << "down", -1 >>
      [] currentVote = "up" /\ direction = "up" -> << "none", -1 >>
      [] currentVote = "down" /\ direction = "down" -> << "none", 1 >>
      [] currentVote = "up" /\ direction = "down" -> << "down", -2 >>
      [] currentVote = "down" /\ direction = "up" -> << "up", 2 >>

\* C9: every vote operation yields the vote record and the score delta of
\* the toggle table
VoteFollowsToggleTable ==
    lastOp.op = "castVote" =>
        << lastOp.newVote, lastOp.scoreDelta >> =
            ToggleTable(lastOp.previousVote, lastOp.direction)

\* what a vote record contributes to a score
Contribution(v) == IF v = "up" THEN 1 ELSE IF v = "down" THEN -1 ELSE 0

\* C10: with no other writers, the local score of a message is the score it
\* was loaded with plus the contribution of the session's vote record
LocalScoreFollowsVote ==
    otherWrites = 0 =>
        \A i \in DOMAIN messages :
            messages[i].id \in DOMAIN score0 =>
                messages[i].score =
                    score0[messages[i].id]
                    + Contribution(getVote(userVotes, messages[i].id))

\* the number of messages held by the hubs hs
RECURSIVE TotalMembers(_)
TotalMembers(hs) ==
    IF hs = << >> THEN 0 ELSE Len(Head(hs).messages) + TotalMembers(Tail(hs))

\* C11: aggregating the empty list gives no hub; otherwise no hub is empty,
\* every input message is a member of exactly one hub, and the hubs hold as
\* many messages as the input
AggregationPartitions ==
    lastOp.op = "aggregate" =>
        /\ lastOp.input = << >> => hubs = << >>
        /\ \A h \in DOMAIN hubs :
             /\ hubs[h].messages # << >>
             /\ hubs[h].count = Len(hubs[h].messages)
        /\ \A j \in DOMAIN lastOp.input :
             Cardinality({ h \in DOMAIN hubs :
                 \E k \in DOMAIN hubs[h].messages :
                     hubs[h].messages[k] = lastOp.input[j] }) = 1
        /\ TotalMembers(hubs) = Len(lastOp.input)

\* C11 witness: three messages were aggregated into two hubs
AggregatedIntoTwoHubs ==
    /\ lastOp.op = "aggregate"
    /\ Len(lastOp.input) = 3
    /\ Len(hubs) = 2

\* C18: between any two zoom levels the resolution of both tables does not
\* decrease as the zoom grows, and it is never finer than the privacy clamp
ResolutionMonotoneAndClamped ==
    lastOp.op = "zoom" =>
        /\ lastOp.from <= lastOp.to =>
             /\ lastOp.resFrom <= lastOp.resTo
             /\ lastOp.tableFrom <= lastOp.tableTo
        /\ lastOp.from >= lastOp.to =>
             /\ lastOp.resFrom >= lastOp.resTo
             /\ lastOp.tableFrom >= lastOp.tableTo
        /\ lastOp.resTo <= PRIVACY_CLAMP_RES
        /\ lastOp.tableTo <= PRIVACY_CLAMP_RES

\* C18 witness: the map was zoomed from below every threshold to far beyond
\* the last one
ZoomedFarIn ==
    /\ lastOp.op = "zoom"
    /\ lastOp.from < 60
    /\ lastOp.to > 180
    /\ lastOp.resTo = PRIVACY_CLAMP_RES

\* C19: no hub's centre is the stored coordinate of one of its members
CenterNeverAMember ==
    lastOp.op = "aggregate" =>
        \A h \in DOMAIN hubs : \A k \in DOMAIN hubs[h].messages :
            ~ ( /\ hubs[h].center.lat = hubs[h].messages[k].lat
                /\ hubs[h].center.lng = hubs[h].messages[k].lng )

\* cell ids compared as the strings they are: here, component by component
idBefore(a, b) ==
    \E n \in DOMAIN a :
        /\ a[n] < b[n]
        /\ \A i \in 1..(n - 1) : a[i] = b[i]

\* the orders in which the messages of ms can be listed
RECURSIVE Orders(_)
Orders(ms) ==
    IF ms = {} THEN { << >> }
    ELSE UNION { { << m >> \o t : t \in Orders(ms \ {m}) } : m \in ms }

\* the cells of a sequence of hubs with their counts, in order
cellsOf(hs) == [ i \in DOMAIN hs |-> << hs[i].id, hs[i].count >> ]

\* C20: the hubs come sorted by descending count, ties by cell id, so any
\* reordering of the input gives the same sequence of hubs
SortedWithTieBreak ==
    lastOp.op = "aggregate" =>
        /\ \A i, j \in DOMAIN hubs :
             i < j => \/ hubs[i].count > hubs[j].count
                      \/ /\ hubs[i].count = hubs[j].count
                         /\ idBefore(hubs[i].id, hubs[j].id)
        /\ \A p \in Orders({ lastOp.input[i] : i \in DOMAIN lastOp.input }) :
             cellsOf(aggregateMessages(lastOp.kind, p, getH3Resolution(zoom)))
                 = cellsOf(hubs)

\* C12: no entry of the top-level collection has a parentId
TopLevelOnly ==
    \A i \in DOMAIN messages : messages[i].parentId = NoParent

\* the replies of this session to `parent` whose handleReply has completed
RepliesDone(parent) ==
    { r \in posts : /\ r.parent_post_id = parent
                    /\ r.session_id = Me
                    /\ Prepended(r.id) }

\* C13: a post's replyCount is the count it was loaded with plus one for each
\* reply of this session that handleReply has completed, whether the echo of
\* the reply has been delivered or not
ReplyCountedOnce ==
    \A i \in DOMAIN messages :
        messages[i].replyCount = Cardinality(RepliesDone(messages[i].id))

\* C13 witness: a reply is complete and its echo was delivered, after the
\* local increment or before it
ReplyAndEchoDone ==
    /\ \E i \in DOMAIN messages : messages[i].replyCount = 1
    /\ channel = << >>
    /\ saveCalls = << >>
    /\ lastOp.op \in { "push", "saveReturn" }

\* the callback is handling a DELETE event
DeleteDelivered ==
    /\ channel # << >>
    /\ Head(channel).type = "DELETE"
    /\ channel' = Tail(channel)
    /\ lastOp'.op = "push"

\* C14: after a DELETE event for an id, no entry has that id, the other
\* entries are the same and in the same order, and nothing changes when no
\* entry had the id
DeleteEventRemovesOnlyThatId ==
    [][ DeleteDelivered =>
          LET x == Head(channel).id
          IN  /\ \A i \in DOMAIN messages' : messages'[i].id # x
              /\ messages' = SelectSeq(messages, LAMBDA m : m.id # x)
              /\ CountId(messages, x) = 0 => messages' = messages ]_vars

\* C14 witness: a DELETE event removed an entry and left others
DeleteEventRemovedOne ==
    /\ lastOp.op = "push"
    /\ lastOp.type = "DELETE"
    /\ lastOp.countBefore = 1
    /\ Len(messages) >= 2

\* C15: when handleDelete completes after a failed delete call, the message
\* it removed is in `messages` again
FailedDeleteRestores ==
    (lastOp.op = "deleteReturn" /\ lastOp.failed)
        => CountId(messages, lastOp.id) > 0

\* the submissions handleSave has completed although their insert failed
Unpersisted ==
    { o.id : o \in { x \in origin : /\ Prepended(x.id)
                                    /\ ~ \E r \in posts : r.id = x.id } }

\* C16: a submission whose insert failed stays in `messages` exactly once,
\* also after a bulk refresh
FailedSubmissionKept ==
    \A id \in Unpersisted : CountId(messages, id) = 1

\* C17: while the device reports no position, no saveMessage call is made
\* and no row of this session is persisted
NoPositionNoSubmission ==
    gps = NoFix =>
        /\ saveCalls = << >>
        /\ accepted = << >>
        /\ ~ \E r \in posts : r.session_id = Me

\* the start time of the session's last accepted submission before lastOp
LastAccepted == lastOp.prior[Len(lastOp.prior)]

\* C21: a submission rejected for cooldown reports the start time of the
\* last accepted submission plus the cooldown as retryAfter, and a
\* submission made at exactly that time is not rejected for cooldown
RejectionReportsRetryAfter ==
    (lastOp.op = "saveMessage" /\ lastOp.prior # << >>) =>
        /\ lastOp.outcome = "cooldown" =>
             retryAfterOf(thrownError(lastOp.outcome))
               = << LastAccepted + SPAM_RATE_LIMIT_MS >>
        /\ lastOp.at = LastAccepted + SPAM_RATE_LIMIT_MS =>
             lastOp.outcome # "cooldown"

\* the entries of a list that carry the id
EntriesOf(list, id) == { i \in DOMAIN list : list[i].id = id }

\* C22: an Update event for an id that is not in `messages` puts the message
\* back into the lists App renders only if it is within its lifespan: one
\* whose score is above the threshold again is back in the feed, one whose
\* lifespan is over stays out, whatever its score
VisibilityFromScoreAndAge ==
    (lastOp.op = "push" /\ lastOp.type = "UPDATE" /\ lastOp.countBefore = 0) =>
        /\ \A i \in EntriesOf(messages, lastOp.id) :
             now - messages[i].timestamp < MESSAGE_LIFESPAN_MS
        /\ \A i \in EntriesOf(visibleMessages, lastOp.id) :
             now - visibleMessages[i].timestamp < MESSAGE_LIFESPAN_MS

\* C23: every hub's count is the number of its members and its
\* latestTimestamp is the greatest timestamp among them
CountAndLatestOfMembers ==
    lastOp.op = "aggregate" =>
        \A h \in DOMAIN hubs :
            /\ hubs[h].count = Len(hubs[h].messages)
            /\ \E k \in DOMAIN hubs[h].messages :
                 hubs[h].latestTimestamp = hubs[h].messages[k].timestamp
            /\ \A k \in DOMAIN hubs[h].messages :
                 hubs[h].latestTimestamp >= hubs[h].messages[k].timestamp

\* `messages` holds an entry with the id that is not visible now
NonVisibleIn(id) ==
    \E i \in EntriesOf(messages, id) : ~ isVisible(messages[i], now)

\* C24: an entry of `messages` that is not visible does not stay there for
\* ever, and a prune step removes exactly the entries that are not visible
\* at that time
NonVisibleEventuallyPruned ==
    /\ \A id \in 1..3 : NonVisibleIn(id) ~> ~ NonVisibleIn(id)
    /\ [][ lastOp'.op = "prune" =>
             messages' = SelectSeq(messages, LAMBDA m : isVisible(m, now)) ]_vars

\* the callback is handling an UPDATE event for a reply
ReplyUpdateDelivered ==
    /\ channel # << >>
    /\ Head(channel).type = "UPDATE"
    /\ Head(channel).message.parentId # NoParent
    /\ channel' = Tail(channel)
    /\ lastOp'.op = "push"

\* C25: an Update event for a reply leaves every replyCount as it was
ReplyUpdateKeepsCount ==
    [][ ReplyUpdateDelivered =>
          /\ Len(messages') = Len(messages)
          /\ \A i \in DOMAIN messages :
               messages'[i].replyCount = messages[i].replyCount ]_vars

\* the callback is handling an INSERT or UPDATE event for a top-level message
\* whose id is in `messages` once
PresentIdDelivered ==
    /\ channel # << >>
    /\ Head(channel).type \in { "INSERT", "UPDATE" }
    /\ Head(channel).message.parentId = NoParent
    /\ CountId(messages, Head(channel).id) = 1
    /\ channel' = Tail(channel)
    /\ lastOp'.op = "push"

\* C26: an Insert or Update event for an id that is present keeps one entry
\* with the id, at the same position, with the same replyCount
PresentIdKeepsPlaceAndCount ==
    [][ PresentIdDelivered =>
          LET i == findIndex(messages, Head(channel).id)
          IN  /\ Len(messages') = Len(messages)
              /\ CountId(messages', Head(channel).id) = 1
              /\ messages'[i].id = Head(channel).id
              /\ messages'[i].replyCount = messages[i].replyCount ]_vars

\* the ids of the top-level rows of the table
TopLevelIds == { r.id : r \in { x \in posts : x.parent_post_id = NoParent } }

\* C27: when a refresh is applied and every event published so far has been
\* delivered, `messages` holds no message a DELETE event removed and every
\* message an INSERT event added: its ids are those of the table's rows
RefreshKeepsNewerEvents ==
    (lastOp.op = "loadApply" /\ channel = << >>) =>
        { messages[i].id : i \in DOMAIN messages } = TopLevelIds

\* C28: the start times of any two accepted saveMessage calls of the session
\* are at least the cooldown apart
AcceptedStartsCooldownApart ==
    \A i, j \in DOMAIN accepted :
        i < j => accepted[j] - accepted[i] >= SPAM_RATE_LIMIT_MS

\* C29: once every castVote call has completed, each row's score is the score
\* it was loaded with plus the contribution of the session's vote record
PersistedScoreFollowsVote ==
    voteCalls = << >> =>
        \A r \in posts :
            r.id \in DOMAIN score0 =>
                r.score = score0[r.id] + Contribution(getVote(userVotes, r.id))

\* C30: `messages` holds no message of this session that the table no longer
\* has or has marked with the soft-delete score
DeletedStaysDeleted ==
    \A i \in DOMAIN messages :
        messages[i].sessionId = Me =>
            \E r \in posts : /\ r.id = messages[i].id
                             /\ r.score # SOFT_DELETE_SCORE

====
